---- MODULE Spec2Model ----
(***************************************************************************)
(* druid_redis_viewer: the command channel, the worker loop handle_events  *)
(* that owns the redis connection, the idle callbacks it queues on the     *)
(* druid event sink, and the widgets that send commands (src/src/lib.rs).  *)
(*                                                                         *)
(* Two specifications share the worker and the callback queue:             *)
(*   Spec        the program as run_app builds it: the only producer is    *)
(*               the UI thread, through the buttons of build_ui;           *)
(*   WorkerSpec  handle_events driven by arbitrary holders of a Sender     *)
(*               clone, which may send any command at any time.            *)
(***************************************************************************)
EXTENDS Integers, Sequences, FiniteSets, TLC

VARIABLES
    chan,        \* the mpsc channel's buffer, oldest first
    senders,     \* the owners of a live Sender
    app,         \* the UI thread: "running", "closed" or "panicked"
    data,        \* RedisViewerState, owned by the UI thread
    callbacks,   \* idle callbacks queued on the ExtEventSink, oldest first
    wpc,         \* the worker's position in handle_events
    cur,         \* the command the worker took last (`event`)
    redis,       \* handle_events' `redis: Option<Connection>`; 0 is None
    conn,        \* the local `conn` of the Ok branch of CreateConnection
    nconn,       \* connections opened so far (names the connections)
    openConns,   \* the connections opened and not yet dropped
    inflight,    \* store calls entered and not yet returned
    panicMsg,    \* the message of the expect() that killed the worker
    sent,        \* history: every command sent, in send order
    processed,   \* history: every command the worker took, in order
    calls,       \* history: the store calls of the current command
    emitted,     \* history: the callbacks queued by the current command
    lastApplied  \* history: the callback the UI thread ran last

vars == <<chan, senders, app, data, callbacks, wpc, cur, redis, conn, nconn,
          openConns, inflight, panicMsg, sent, processed, calls, emitted, lastApplied>>

workerVars == <<wpc, cur, redis, conn, nconn, openConns, inflight, panicMsg, processed,
                calls, emitted>>

-----------------------------------------------------------------------------
(* Bounds *)

\* Commands sent over a whole run.
MaxSends == 3

-----------------------------------------------------------------------------
(* Values *)

None == 0

\* A text is a sequence of one-character strings.
Digits == {"0", "1", "2", "3", "4", "5", "6", "7", "8", "9"}

DigitVal(c) ==
    CASE c = "0" -> 0 [] c = "1" -> 1 [] c = "2" -> 2 [] c = "3" -> 3
      [] c = "4" -> 4 [] c = "5" -> 5 [] c = "6" -> 6 [] c = "7" -> 7
      [] c = "8" -> 8 [] c = "9" -> 9

U16Max == 65535

Ok(v) == [ok |-> TRUE, val |-> v]
Err == [ok |-> FALSE, val |-> 0]

RECURSIVE ParseDigits(_, _, _)
\* The digit loop of str::parse for an integer type: every character must be
\* a digit and the running value may not pass `max`.
ParseDigits(t, acc, max) ==
    IF t = <<>> THEN Ok(acc)
    ELSE IF Head(t) \notin Digits THEN Err
    ELSE LET v == acc * 10 + DigitVal(Head(t))
         IN IF v > max THEN Err ELSE ParseDigits(Tail(t), v, max)

\* port.parse::<u16>(): empty text, a lone sign, "-", a non-digit and a value
\* above 65535 are errors; one leading "+" is accepted.
ParseU16(t) ==
    IF t = <<>> THEN Err
    ELSE IF Head(t) = "+" THEN (IF Len(t) = 1 THEN Err ELSE ParseDigits(Tail(t), 0, U16Max))
    ELSE ParseDigits(t, 0, U16Max)

\* The texts of the model have at most 5 digits, far below i64's range, so
\* the overflow limit of db.parse::<i64>() is never met; 99999 stands for it.
I64Reach == 99999

\* db.parse::<i64>(): as ParseU16, and one leading "-" is accepted too.
ParseI64(t) ==
    IF t = <<>> THEN Err
    ELSE IF Head(t) \in {"+", "-"} THEN
        (IF Len(t) = 1 THEN Err
         ELSE LET r == ParseDigits(Tail(t), 0, I64Reach)
              IN IF r.ok /\ Head(t) = "-" THEN Ok(0 - r.val) ELSE r)
    ELSE ParseDigits(t, 0, I64Reach)

Address == "127.0.0.1"
PortTexts == {<<"6", "3", "7", "9">>, <<"6", "5", "5", "3", "6">>}
DbTexts == {<<"0">>, <<"x">>}
Keys == {"a", "b:c"}
KeyLists == {<<>>, <<"a", "b:c">>}

\* RedisValue: Null and one String stand for the six variants, which
\* handle_events treats alike.
NullValue == [kind |-> "Null", v |-> ""]
RedisValues == {NullValue, [kind |-> "String", v |-> "v1"]}

\* What get_redis_value returns, as Ok, for a key the store does not hold
\* at the time of the call.
MissingKeyValue == NullValue

\* Option<RedisValue>
NoValue == [some |-> FALSE, value |-> NullValue]
Some(v) == [some |-> TRUE, value |-> v]

\* enum RedisViewerEvent; `from` names the sender (history only).
RefreshKeys(p) ==
    [type |-> "RefreshKeys", address |-> "", port |-> <<>>, db |-> <<>>, key |-> "", from |-> p]
CreateConnection(a, port, db, p) ==
    [type |-> "CreateConnection", address |-> a, port |-> port, db |-> db, key |-> "", from |-> p]
SelectRedisValue(k, p) ==
    [type |-> "SelectRedisValue", address |-> "", port |-> <<>>, db |-> <<>>, key |-> k, from |-> p]
NoEvent ==
    [type |-> "None", address |-> "", port |-> <<>>, db |-> <<>>, key |-> "", from |-> ""]

Producers == {"p1", "p2"}

\* What a producer of WorkerSpec sends: p1 the commands of the connection
\* form and of the Refresh button, p2 those of the viewer.
Events(p) ==
    IF p = "p1"
    THEN {RefreshKeys(p)}
         \cup {CreateConnection(Address, port, db, p) : port \in PortTexts, db \in DbTexts}
    ELSE {RefreshKeys(p)} \cup {SelectRedisValue(k, p) : k \in Keys}

-----------------------------------------------------------------------------
(* Idle callbacks: the closures handle_events and sync_keys hand to        *)
(* add_idle_callback. `cmd` is the number of the command that queued it    *)
(* (history only).                                                         *)

\* sync_keys' closure: keys, keys_senders and is_refreshing.
KeysSynced(keys, n) ==
    [tag |-> "KeysUpdated", cmd |-> n, keys |-> keys, senders |-> TRUE, value |-> NoValue]
\* The closure of RefreshKeys without a connection: keys and is_refreshing.
KeysCleared(n) ==
    [tag |-> "KeysUpdated", cmd |-> n, keys |-> <<>>, senders |-> FALSE, value |-> NoValue]
\* The closure queued when connect_redis returned Ok.
ConnectionEstablished(n) ==
    [tag |-> "ConnectionEstablished", cmd |-> n, keys |-> <<>>, senders |-> FALSE, value |-> NoValue]
\* The closure queued when connect_redis returned Err.
ConnectionFailed(n) ==
    [tag |-> "ConnectionFailed", cmd |-> n, keys |-> <<>>, senders |-> FALSE, value |-> NoValue]
\* The closures of SelectRedisValue: redis_value = Some(value) or None.
ValueSelected(ov, n) ==
    [tag |-> "ValueSelected", cmd |-> n, keys |-> <<>>, senders |-> FALSE, value |-> ov]
NoCallback ==
    [tag |-> "None", cmd |-> 0, keys |-> <<>>, senders |-> FALSE, value |-> NoValue]

\* struct ItemSender: the key of a list row (its sender is the shared one).
ItemSender(k) == [value |-> k]

\* Mutant of ApplyTo: sync_keys' closure sets keys and is_refreshing and
\* leaves keys_senders as it was.
ApplyToKeysOnly(d, cb) ==
    CASE cb.tag = "KeysUpdated" ->
           [d EXCEPT !.keys = cb.keys, !.is_refreshing = FALSE]
      [] cb.tag = "ConnectionEstablished" ->
           [d EXCEPT !.is_connection_form_showing = FALSE, !.is_refreshing = TRUE]
      [] cb.tag = "ConnectionFailed" ->
           [d EXCEPT !.is_connection_form_showing = TRUE]
      [] cb.tag = "ValueSelected" ->
           [d EXCEPT !.redis_value = cb.value]

\* What running callback cb does to RedisViewerState d.
ApplyTo(d, cb) ==
    CASE cb.tag = "KeysUpdated" /\ cb.senders ->
           [d EXCEPT !.keys = cb.keys,
                     !.keys_senders = [i \in 1..Len(cb.keys) |-> ItemSender(cb.keys[i])],
                     !.is_refreshing = FALSE]
      [] cb.tag = "KeysUpdated" /\ ~cb.senders ->
           [d EXCEPT !.keys = <<>>, !.is_refreshing = FALSE]
      [] cb.tag = "ConnectionEstablished" ->
           [d EXCEPT !.is_connection_form_showing = FALSE, !.is_refreshing = TRUE]
      [] cb.tag = "ConnectionFailed" ->
           [d EXCEPT !.is_connection_form_showing = TRUE]
      [] cb.tag = "ValueSelected" ->
           [d EXCEPT !.redis_value = cb.value]

-----------------------------------------------------------------------------
(* Initial state: run_app *)

InitData ==
    [keys |-> <<>>,
     keys_senders |-> <<>>,
     is_refreshing |-> FALSE,
     is_connection_form_showing |-> TRUE,
     connection_address |-> Address,
     connection_port |-> <<"6", "3", "7", "9">>,
     connection_db |-> <<"0">>,
     redis_value |-> NoValue]

InitCommon ==
    /\ chan = <<>>
    /\ app = "running"
    /\ data = InitData
    /\ callbacks = <<>>
    /\ wpc = "loop"
    /\ cur = NoEvent
    /\ redis = None
    /\ conn = None
    /\ nconn = 0
    /\ openConns = {}
    /\ inflight = 0
    /\ panicMsg = ""
    /\ sent = <<>>
    /\ processed = <<>>
    /\ calls = <<>>
    /\ emitted = <<>>
    /\ lastApplied = NoCallback

\* The one Sender lives in RedisViewerState (and its clones in ItemSenders).
Init == InitCommon /\ senders = {"ui"}

\* Every producer holds a clone of the Sender.
InitWorker == InitCommon /\ senders = Producers

-----------------------------------------------------------------------------
(* The channel *)

\* The Receiver lives in handle_events' frame: it is gone once the worker
\* returned or unwound.
ReceiverAlive == wpc \notin {"exited", "panicked"}

\* Sender::send on a live channel: the command goes to the back.
Send(c) ==
    /\ chan' = Append(chan, c)
    /\ sent' = Append(sent, c)

\* Mutant of TryRecv: the newest command is handed out first.
TryRecvNewest == chan[Len(chan)]

\* receiver.try_recv() returning Ok: the front of the buffer.
TryRecv == Head(chan)
AfterRecv == Tail(chan)

-----------------------------------------------------------------------------
(* The worker: handle_events *)

\* The number of the command being processed.
CurNo == Len(processed)

\* event_sink.add_idle_callback(cb)
Emit(cb) ==
    /\ callbacks' = Append(callbacks, cb)
    /\ emitted' = Append(emitted, cb)

NoEmit == UNCHANGED <<callbacks, emitted>>

\* Entering a blocking store call op on connection c.
BeginCall(op, c) ==
    /\ inflight' = inflight + 1
    /\ calls' = Append(calls, [op |-> op, conn |-> c, done |-> FALSE, ok |-> FALSE,
                               keys |-> <<>>, value |-> NullValue])

\* The store call in progress returns.
EndCall(ok, keys, value) ==
    /\ inflight' = inflight - 1
    /\ calls' = [calls EXCEPT ![Len(calls)] =
                    [@ EXCEPT !.done = TRUE, !.ok = ok, !.keys = keys, !.value = value]]

\* A failed expect(): the thread unwinds; the Receiver, `redis` and `conn`
\* are dropped.
Panic(msg) ==
    /\ wpc' = "panicked"
    /\ panicMsg' = msg
    /\ openConns' = {}

\* Mutant of AtLoopTop: store calls do not block, the loop goes on to
\* try_recv while one is pending.
AtLoopTopEarly ==
    wpc \in {"loop", "refresh_keys", "connecting", "connect_keys", "get_value_1", "get_value_2"}

\* The top of `loop`, about to call try_recv.
AtLoopTop == wpc = "loop"

\* try_recv() = Ok(event)
Recv ==
    /\ AtLoopTop
    /\ chan # <<>>
    /\ cur' = TryRecv
    /\ chan' = AfterRecv
    /\ processed' = Append(processed, TryRecv)
    /\ calls' = <<>>
    /\ emitted' = <<>>
    /\ wpc' = "dispatch"
    /\ UNCHANGED <<senders, app, data, callbacks, redis, conn, nconn, openConns, inflight,
                   panicMsg, sent, lastApplied>>

\* try_recv() = Err(Disconnected): no command buffered and no Sender left;
\* handle_events returns and `redis` is dropped. (Err(Empty) loops without
\* a change of state.)
RecvDisconnected ==
    /\ AtLoopTop
    /\ chan = <<>>
    /\ senders = {}
    /\ wpc' = "exited"
    /\ openConns' = {}
    /\ UNCHANGED <<chan, senders, app, data, callbacks, cur, redis, conn, nconn,
                   inflight, panicMsg, sent, processed, calls, emitted, lastApplied>>

\* What a worker step leaves alone besides the channel and the callbacks.
uiVars == <<senders, app, data, sent, lastApplied>>

\* The outcomes of the store functions, as their call sites take them:
\* connect_redis -> Result<Connection, _>
ConnectResults == {TRUE, FALSE}
\* get_all_keys -> Result<Vec<String>, _>
KeysResults == {Ok(ks) : ks \in KeyLists} \cup {Err}
\* get_redis_value -> Result<RedisValue, _>
ValueResults == {Ok(v) : v \in RedisValues} \cup {Err}

\* Mutant of HandleRefreshKeys: the store is asked whether or not a
\* connection is held.
HandleRefreshKeysAlwaysLists ==
    /\ wpc = "dispatch"
    /\ cur.type = "RefreshKeys"
    /\ BeginCall("get_all_keys", redis)
    /\ wpc' = "refresh_keys"
    /\ NoEmit
    /\ UNCHANGED <<chan, cur, redis, conn, nconn, openConns, panicMsg, processed>>
    /\ UNCHANGED uiVars

\* RedisViewerEvent::RefreshKeys, up to the call of get_all_keys.
HandleRefreshKeys ==
    /\ wpc = "dispatch"
    /\ cur.type = "RefreshKeys"
    /\ IF redis # None
       THEN /\ BeginCall("get_all_keys", redis)
            /\ wpc' = "refresh_keys"
            /\ NoEmit
       ELSE /\ Emit(KeysCleared(CurNo))
            /\ wpc' = "loop"
            /\ UNCHANGED <<inflight, calls>>
    /\ UNCHANGED <<chan, cur, redis, conn, nconn, openConns, panicMsg, processed>>
    /\ UNCHANGED uiVars

\* get_all_keys(connection).expect("failed to get keys"); sync_keys(..)
RefreshKeysReturn ==
    /\ wpc = "refresh_keys"
    /\ \E r \in KeysResults :
         /\ EndCall(r.ok, IF r.ok THEN r.val ELSE <<>>, NullValue)
         /\ IF r.ok
            THEN /\ Emit(KeysSynced(r.val, CurNo))
                 /\ wpc' = "loop"
                 /\ UNCHANGED <<panicMsg, openConns>>
            ELSE /\ Panic("failed to get keys")
                 /\ NoEmit
    /\ UNCHANGED <<chan, cur, redis, conn, nconn, processed>>
    /\ UNCHANGED uiVars

\* RedisViewerEvent::CreateConnection: the two parses, up to connect_redis.
HandleCreateConnection ==
    /\ wpc = "dispatch"
    /\ cur.type = "CreateConnection"
    /\ IF ~ParseU16(cur.port).ok
       THEN Panic("failed to parse port") /\ UNCHANGED <<inflight, calls>>
       ELSE IF ~ParseI64(cur.db).ok
       THEN Panic("failed to parse db") /\ UNCHANGED <<inflight, calls>>
       ELSE /\ BeginCall("connect_redis", None)
            /\ wpc' = "connecting"
            /\ UNCHANGED <<panicMsg, openConns>>
    /\ NoEmit
    /\ UNCHANGED <<chan, cur, redis, conn, nconn, processed>>
    /\ UNCHANGED uiVars

\* Mutant of ConnectReturn: the Ok branch queues its closure only after the
\* keys, that is, not here.
ConnectReturnKeysFirst ==
    /\ wpc = "connecting"
    /\ \E ok \in ConnectResults :
         /\ EndCall(ok, <<>>, NullValue)
         /\ IF ok
            THEN /\ conn' = nconn + 1
                 /\ nconn' = nconn + 1
                 /\ openConns' = openConns \cup {nconn + 1}
                 /\ NoEmit
                 /\ wpc' = "connected"
            ELSE /\ Emit(ConnectionFailed(CurNo))
                 /\ wpc' = "loop"
                 /\ UNCHANGED <<conn, nconn, openConns>>
    /\ UNCHANGED <<chan, cur, redis, panicMsg, processed>>
    /\ UNCHANGED uiVars

\* Mutant of ConnectReturn: the connection is stored in `redis` as soon as
\* connect_redis returned it, before the keys are fetched.
ConnectReturnStoresEarly ==
    /\ wpc = "connecting"
    /\ \E ok \in ConnectResults :
         /\ EndCall(ok, <<>>, NullValue)
         /\ IF ok
            THEN /\ conn' = nconn + 1
                 /\ nconn' = nconn + 1
                 /\ redis' = nconn + 1
                 /\ openConns' = {nconn + 1}
                 /\ Emit(ConnectionEstablished(CurNo))
                 /\ wpc' = "connected"
            ELSE /\ Emit(ConnectionFailed(CurNo))
                 /\ wpc' = "loop"
                 /\ UNCHANGED <<redis, conn, nconn, openConns>>
    /\ UNCHANGED <<chan, cur, panicMsg, processed>>
    /\ UNCHANGED uiVars

\* connect_redis returns: Ok queues the closure that hides the form, Err
\* the one that shows it; `redis` is not touched in either branch.
ConnectReturn ==
    /\ wpc = "connecting"
    /\ \E ok \in ConnectResults :
         /\ EndCall(ok, <<>>, NullValue)
         /\ IF ok
            THEN /\ conn' = nconn + 1
                 /\ nconn' = nconn + 1
                 /\ openConns' = openConns \cup {nconn + 1}
                 /\ Emit(ConnectionEstablished(CurNo))
                 /\ wpc' = "connected"
            ELSE /\ Emit(ConnectionFailed(CurNo))
                 /\ wpc' = "loop"
                 /\ UNCHANGED <<conn, nconn, openConns>>
    /\ UNCHANGED <<chan, cur, redis, panicMsg, processed>>
    /\ UNCHANGED uiVars

\* get_all_keys(&mut conn) of the Ok branch is entered.
ConnectListKeys ==
    /\ wpc = "connected"
    /\ BeginCall("get_all_keys", conn)
    /\ wpc' = "connect_keys"
    /\ NoEmit
    /\ UNCHANGED <<chan, cur, redis, conn, nconn, openConns, panicMsg, processed>>
    /\ UNCHANGED uiVars

\* Mutant of ConnectKeysReturn: the new connection is dropped and the one
\* held before is kept.
ConnectKeysReturnKeepsOld ==
    /\ wpc = "connect_keys"
    /\ \E r \in KeysResults :
         /\ EndCall(r.ok, IF r.ok THEN r.val ELSE <<>>, NullValue)
         /\ IF r.ok
            THEN /\ Emit(KeysSynced(r.val, CurNo))
                 /\ redis' = redis
                 /\ openConns' = openConns \ {conn}
                 /\ wpc' = "loop"
                 /\ UNCHANGED panicMsg
            ELSE /\ Panic("failed to get keys")
                 /\ NoEmit
                 /\ UNCHANGED redis
    /\ UNCHANGED <<chan, cur, conn, nconn, processed>>
    /\ UNCHANGED uiVars

\* .expect("failed to get keys"); sync_keys(..); redis = Some(conn): the
\* assignment drops the connection held before.
ConnectKeysReturn ==
    /\ wpc = "connect_keys"
    /\ \E r \in KeysResults :
         /\ EndCall(r.ok, IF r.ok THEN r.val ELSE <<>>, NullValue)
         /\ IF r.ok
            THEN /\ Emit(KeysSynced(r.val, CurNo))
                 /\ redis' = conn
                 /\ openConns' = openConns \ {redis}
                 /\ wpc' = "loop"
                 /\ UNCHANGED panicMsg
            ELSE /\ Panic("failed to get keys")
                 /\ NoEmit
                 /\ UNCHANGED redis
    /\ UNCHANGED <<chan, cur, conn, nconn, processed>>
    /\ UNCHANGED uiVars

\* Mutant of HandleSelectRedisValue: without a connection the closure
\* carries Some(RedisValue::Null) instead of None.
HandleSelectRedisValueNull ==
    /\ wpc = "dispatch"
    /\ cur.type = "SelectRedisValue"
    /\ IF redis # None
       THEN /\ BeginCall("get_redis_value", redis)
            /\ wpc' = "get_value_1"
            /\ NoEmit
       ELSE /\ Emit(ValueSelected(Some(NullValue), CurNo))
            /\ wpc' = "loop"
            /\ UNCHANGED <<inflight, calls>>
    /\ UNCHANGED <<chan, cur, redis, conn, nconn, openConns, panicMsg, processed>>
    /\ UNCHANGED uiVars

\* RedisViewerEvent::SelectRedisValue, up to the first get_redis_value.
HandleSelectRedisValue ==
    /\ wpc = "dispatch"
    /\ cur.type = "SelectRedisValue"
    /\ IF redis # None
       THEN /\ BeginCall("get_redis_value", redis)
            /\ wpc' = "get_value_1"
            /\ NoEmit
       ELSE /\ Emit(ValueSelected(NoValue, CurNo))
            /\ wpc' = "loop"
            /\ UNCHANGED <<inflight, calls>>
    /\ UNCHANGED <<chan, cur, redis, conn, nconn, openConns, panicMsg, processed>>
    /\ UNCHANGED uiVars

\* The first get_redis_value returns; its value is matched and dropped.
GetValueReturn ==
    /\ wpc = "get_value_1"
    /\ \E r \in ValueResults :
         /\ EndCall(r.ok, <<>>, IF r.ok THEN r.val ELSE NullValue)
         /\ IF r.ok
            THEN wpc' = "got_value_1" /\ UNCHANGED <<panicMsg, openConns>>
            ELSE Panic("failed to get value for key")
    /\ NoEmit
    /\ UNCHANGED <<chan, cur, redis, conn, nconn, processed>>
    /\ UNCHANGED uiVars

\* The second get_redis_value is entered.
GetValueAgain ==
    /\ wpc = "got_value_1"
    /\ BeginCall("get_redis_value", redis)
    /\ wpc' = "get_value_2"
    /\ NoEmit
    /\ UNCHANGED <<chan, cur, redis, conn, nconn, openConns, panicMsg, processed>>
    /\ UNCHANGED uiVars

\* Mutant of GetValueAgainReturn: a Null value (the key is gone) is taken
\* for a failed fetch.
GetValueAgainReturnRejectsNull ==
    /\ wpc = "get_value_2"
    /\ \E r \in ValueResults :
         /\ EndCall(r.ok, <<>>, IF r.ok THEN r.val ELSE NullValue)
         /\ IF r.ok /\ r.val # NullValue
            THEN /\ Emit(ValueSelected(Some(r.val), CurNo))
                 /\ wpc' = "loop"
                 /\ UNCHANGED <<panicMsg, openConns>>
            ELSE /\ Panic("failed to get value for key")
                 /\ NoEmit
    /\ UNCHANGED <<chan, cur, redis, conn, nconn, processed>>
    /\ UNCHANGED uiVars

\* The second get_redis_value returns; its value goes to the closure.
GetValueAgainReturn ==
    /\ wpc = "get_value_2"
    /\ \E r \in ValueResults :
         /\ EndCall(r.ok, <<>>, IF r.ok THEN r.val ELSE NullValue)
         /\ IF r.ok
            THEN /\ Emit(ValueSelected(Some(r.val), CurNo))
                 /\ wpc' = "loop"
                 /\ UNCHANGED <<panicMsg, openConns>>
            ELSE /\ Panic("failed to get value for key")
                 /\ NoEmit
    /\ UNCHANGED <<chan, cur, redis, conn, nconn, processed>>
    /\ UNCHANGED uiVars

Worker ==
    \/ Recv
    \/ RecvDisconnected
    \/ HandleRefreshKeys
    \/ RefreshKeysReturn
    \/ HandleCreateConnection
    \/ ConnectReturn
    \/ ConnectListKeys
    \/ ConnectKeysReturn
    \/ HandleSelectRedisValue
    \/ GetValueReturn
    \/ GetValueAgain
    \/ GetValueAgainReturn

-----------------------------------------------------------------------------
(* The UI thread *)

\* The idle handler runs the oldest queued callback on the state.
RunIdleCallback ==
    /\ app = "running"
    /\ callbacks # <<>>
    /\ data' = ApplyTo(data, Head(callbacks))
    /\ lastApplied' = Head(callbacks)
    /\ callbacks' = Tail(callbacks)
    /\ UNCHANGED <<chan, senders, app, sent>>
    /\ UNCHANGED workerVars

\* A click handler's send(..).expect(..): the command is queued, or, the
\* Receiver being gone, the UI thread panics and the state (with every
\* Sender) is dropped.
ClickSend(c, d) ==
    IF ReceiverAlive
    THEN /\ Send(c)
         /\ data' = d
         /\ UNCHANGED <<senders, app>>
    ELSE /\ app' = "panicked"
         /\ senders' = {}
         /\ data' = d
         /\ UNCHANGED <<chan, sent>>

\* Either shows the connection form or the viewer, never both.
FormShowing == data.is_connection_form_showing

\* Typing in the Port text box.
EditPort ==
    /\ app = "running"
    /\ FormShowing
    /\ \E t \in PortTexts \ {data.connection_port} :
         data' = [data EXCEPT !.connection_port = t]
    /\ UNCHANGED <<chan, senders, app, callbacks, sent, lastApplied>>
    /\ UNCHANGED workerVars

\* Typing in the Database text box.
EditDb ==
    /\ app = "running"
    /\ FormShowing
    /\ \E t \in DbTexts \ {data.connection_db} :
         data' = [data EXCEPT !.connection_db = t]
    /\ UNCHANGED <<chan, senders, app, callbacks, sent, lastApplied>>
    /\ UNCHANGED workerVars

\* The Connect button: the three texts go into the command as they are.
ClickConnect ==
    /\ app = "running"
    /\ FormShowing
    /\ Len(sent) < MaxSends
    /\ ClickSend(CreateConnection(data.connection_address, data.connection_port,
                                  data.connection_db, "ui"), data)
    /\ UNCHANGED <<callbacks, lastApplied>>
    /\ UNCHANGED workerVars

\* The Refresh button; a click while is_refreshing does nothing.
ClickRefresh ==
    /\ app = "running"
    /\ ~FormShowing
    /\ ~data.is_refreshing
    /\ Len(sent) < MaxSends
    /\ ClickSend(RefreshKeys("ui"), [data EXCEPT !.is_refreshing = TRUE])
    /\ UNCHANGED <<callbacks, lastApplied>>
    /\ UNCHANGED workerVars

\* The button of a row of the key list.
ClickKey ==
    /\ app = "running"
    /\ ~FormShowing
    /\ Len(sent) < MaxSends
    /\ \E i \in 1..Len(data.keys_senders) :
         ClickSend(SelectRedisValue(data.keys_senders[i].value, "ui"), data)
    /\ UNCHANGED <<callbacks, lastApplied>>
    /\ UNCHANGED workerVars

\* The window closes: launch returns and the state is dropped, and with it
\* every Sender.
CloseWindow ==
    /\ app = "running"
    /\ app' = "closed"
    /\ senders' = {}
    /\ UNCHANGED <<chan, data, callbacks, sent, lastApplied>>
    /\ UNCHANGED workerVars

Next ==
    \/ Worker
    \/ RunIdleCallback
    \/ EditPort
    \/ EditDb
    \/ ClickConnect
    \/ ClickRefresh
    \/ ClickKey
    \/ CloseWindow

Spec == Init /\ [][Next]_vars

-----------------------------------------------------------------------------
(* handle_events under arbitrary producers *)

\* A holder of a Sender sends any command.
Submit ==
    /\ ReceiverAlive
    /\ Len(sent) < MaxSends
    /\ \E p \in senders : \E c \in Events(p) : Send(c)
    /\ UNCHANGED <<senders, app, data, callbacks, lastApplied>>
    /\ UNCHANGED workerVars

\* A holder drops its Sender.
DropSender ==
    /\ \E p \in senders : senders' = senders \ {p}
    /\ UNCHANGED <<chan, app, data, callbacks, sent, lastApplied>>
    /\ UNCHANGED workerVars

WorkerNext ==
    \/ Worker
    \/ RunIdleCallback
    \/ Submit
    \/ DropSender

WorkerSpec == InitWorker /\ [][WorkerNext]_vars

-----------------------------------------------------------------------------
(* Properties *)

IsPrefix(a, b) == Len(a) <= Len(b) /\ a = SubSeq(b, 1, Len(a))

\* The commands of s that producer p sent.
FromProducer(s, p) ==
    LET ByP(c) == c.from = p IN SelectSeq(s, ByP)

Tags(s) == [i \in 1..Len(s) |-> s[i].tag]

\* The positions of handle_events inside a store call.
CallPositions == {"refresh_keys", "connecting", "connect_keys", "get_value_1", "get_value_2"}

\* The worker is done with the command it took last.
CommandDone == wpc \in {"loop", "exited", "panicked"} /\ cur # NoEvent

\* C1: the commands the worker took are, in order and one for one, the
\* commands sent: what it took, followed by what is still buffered, is the
\* sequence of sends; restricted to one producer, the order taken is the
\* order that producer sent in.
C1_FifoOrder ==
    /\ processed \o chan = sent
    /\ processed # <<>> => cur = processed[Len(processed)]
    /\ \A p \in Producers :
         IsPrefix(FromProducer(processed, p), FromProducer(sent, p))

\* Two different commands of different producers were taken while a later
\* one of the first producer waits in the channel.
C1_Witness ==
    /\ Len(processed) = 2
    /\ processed[1].from # processed[2].from
    /\ Len(chan) = 1
    /\ chan[1].from = processed[1].from
    /\ chan[1] # processed[1]

\* C2: at most one store call is in progress, and one is in progress only
\* while the worker sits inside it: never when it takes or dispatches a
\* command, and the UI thread never adds one.
C2_OneStoreCallAtATime ==
    /\ inflight \in {0, 1}
    /\ inflight = 1 <=> wpc \in CallPositions

\* The second fetch of a SelectRedisValue is in progress while another
\* command waits in the channel.
C2_Witness ==
    /\ wpc = "get_value_2"
    /\ inflight = 1
    /\ chan # <<>>

OfConnect(cb) ==
    /\ cb.cmd \in 1..Len(processed)
    /\ processed[cb.cmd].type = "CreateConnection"

C4_FailedConnectDisconnects ==
    (/\ cur.type = "CreateConnection"
     /\ calls # <<>>
     /\ calls[1].op = "connect_redis"
     /\ calls[1].done
     /\ ~calls[1].ok)
        => (redis = None /\ Tags(emitted) = <<"ConnectionFailed">> /\ wpc # "panicked")

\* C5 as claimed: once get_all_keys failed for a RefreshKeys, the worker is
\* alive and holds the connection it called on.
C5_RefreshFailureKeepsWorker ==
    (/\ cur.type = "RefreshKeys"
     /\ calls # <<>>
     /\ calls[1].done
     /\ ~calls[1].ok)
        => (wpc # "panicked" /\ redis = calls[1].conn /\ redis # None)

ResultTags == {"KeysUpdated", "ConnectionEstablished", "ConnectionFailed", "ValueSelected"}

\* C6 as claimed: a failed get_all_keys or get_redis_value of a RefreshKeys
\* or SelectRedisValue has the worker queue a callback that is none of the
\* four results of a successful or unconnected command.
C6_FetchFailureIsReported ==
    (/\ cur.type \in {"RefreshKeys", "SelectRedisValue"}
     /\ \E i \in 1..Len(calls) : calls[i].done /\ ~calls[i].ok)
        => \E j \in 1..Len(emitted) : emitted[j].tag \notin ResultTags

\* C7 as claimed: the worker has stopped only if no Sender is left and no
\* command is buffered.
C7_StopsOnlyWhenDisconnected ==
    ~ReceiverAlive => (senders = {} /\ chan = <<>>)

\* C8 as claimed: every CreateConnection sent carries a port that parses as
\* u16 and a database that parses as a non-negative i64, and the worker
\* never dies parsing them.
C8_ConnectCarriesValidNumbers ==
    /\ \A i \in 1..Len(sent) :
         sent[i].type = "CreateConnection"
            => /\ ParseU16(sent[i].port).ok
               /\ ParseI64(sent[i].db).ok
               /\ ParseI64(sent[i].db).val >= 0
    /\ panicMsg \notin {"failed to parse port", "failed to parse db"}

\* C9: the step that handles a RefreshKeys while `redis` is None queues one
\* callback, a KeysUpdated that empties the key list, enters no store call,
\* leaves `redis` None and returns to the top of the loop.
C9_RefreshWhileDisconnected ==
    [][(wpc = "dispatch" /\ cur.type = "RefreshKeys" /\ redis = None /\ wpc' # wpc)
        => /\ wpc' = "loop"
           /\ redis' = None
           /\ inflight' = 0
           /\ calls' = <<>>
           /\ Len(callbacks') = Len(callbacks) + 1
           /\ emitted' = <<callbacks'[Len(callbacks')]>>
           /\ emitted'[1].tag = "KeysUpdated"
           /\ emitted'[1].keys = <<>>
           /\ ApplyTo(data, emitted'[1]).keys = <<>>]_vars

\* A RefreshKeys was handled without a connection, after a CreateConnection
\* that failed.
C9_Witness ==
    /\ CommandDone
    /\ cur.type = "RefreshKeys"
    /\ redis = None
    /\ emitted # <<>>
    /\ Len(processed) = 2
    /\ processed[1].type = "CreateConnection"

\* C10 as claimed: a SelectRedisValue handled with a connection makes one
\* get_redis_value call, and the ValueSelected it queues carries that call's
\* value.
C10_OneFetchPerSelect ==
    (cur.type = "SelectRedisValue" /\ calls # <<>>)
        => /\ Len(calls) = 1
           /\ emitted # <<>> => emitted[1].value = Some(calls[1].value)

\* C11 as claimed: a SelectRedisValue handled without a connection queues
\* a ValueSelected carrying the value a fetch of a missing key yields,
\* Some(RedisValue::Null).
C11_SelectWhileDisconnectedIsNull ==
    (/\ CommandDone
     /\ cur.type = "SelectRedisValue"
     /\ calls = <<>>
     /\ emitted # <<>>)
        => emitted[1].value = Some(NullValue)

\* C11, amended: the step that handles a SelectRedisValue while `redis` is
\* None queues one callback, a ValueSelected carrying None (no value, which
\* no fetch yields: a fetch's value is always wrapped in Some), enters no
\* store call, leaves `redis` None and returns to the top of the loop.
C11_SelectWhileDisconnected ==
    [][(wpc = "dispatch" /\ cur.type = "SelectRedisValue" /\ redis = None /\ wpc' # wpc)
        => /\ wpc' = "loop"
           /\ redis' = None
           /\ inflight' = 0
           /\ calls' = <<>>
           /\ Len(callbacks') = Len(callbacks) + 1
           /\ emitted' = <<callbacks'[Len(callbacks')]>>
           /\ emitted'[1].tag = "ValueSelected"
           /\ emitted'[1].value = NoValue
           /\ \A v \in RedisValues : emitted'[1].value # Some(v)
           /\ ApplyTo(data, emitted'[1]).redis_value = NoValue]_vars

\* A SelectRedisValue was handled without a connection.
C11_Witness ==
    /\ CommandDone
    /\ cur.type = "SelectRedisValue"
    /\ redis = None
    /\ calls = <<>>
    /\ emitted # <<>>

\* C12: the store answers each get_redis_value on its own, so a key may be
\* gone at the first call, at the second only, or at neither. Whenever a
\* call of a SelectRedisValue returns the value of a missing key, the worker
\* does not panic and keeps its connection; when the second call does, the
\* one callback queued is a ValueSelected carrying that value.
C12_SelectOfVanishedKey ==
    \A i \in 1..Len(calls) :
        (/\ cur.type = "SelectRedisValue"
         /\ i = Len(calls)
         /\ calls[i].done
         /\ calls[i].ok
         /\ calls[i].value = MissingKeyValue)
            => /\ wpc # "panicked"
               /\ redis = calls[i].conn
               /\ redis # None
               /\ i = 1 => (wpc = "got_value_1" /\ emitted = <<>>)
               /\ i = 2 => (/\ wpc \in {"loop", "exited"}
                            /\ emitted = <<ValueSelected(Some(MissingKeyValue), CurNo)>>)

\* The key of a row of the key list was there at the first fetch and gone
\* at the second; the worker, still connected, reported the missing key.
C12_Witness ==
    /\ cur.type = "SelectRedisValue"
    /\ \E i \in 1..Len(data.keys) : data.keys[i] = cur.key
    /\ Len(calls) = 2
    /\ calls[1].value # MissingKeyValue
    /\ calls[2].done /\ calls[2].ok
    /\ calls[2].value = MissingKeyValue
    /\ wpc = "loop"
    /\ redis # None
    /\ emitted # <<>>

\* The positions of handle_events inside the Ok branch of CreateConnection,
\* where the new connection is held in `conn` beside the one in `redis`.
ConnectPositions == {"connected", "connect_keys"}

\* C13: connections are numbered as connect_redis opens them. While the
\* worker runs outside the Ok branch of a CreateConnection, the connection
\* it holds is the newest one opened and no other connection is open (the
\* earlier ones were dropped); every store call of a RefreshKeys or a
\* SelectRedisValue is made on the connection held.
C13_ReconnectReplaces ==
    /\ (wpc \notin ConnectPositions /\ wpc \notin {"exited", "panicked"}) =>
         /\ redis = nconn
         /\ openConns = (IF nconn = 0 THEN {} ELSE {nconn})
    /\ cur.type \in {"RefreshKeys", "SelectRedisValue"} =>
         \A i \in 1..Len(calls) : calls[i].conn = redis /\ redis # None

\* After two successful connects a RefreshKeys fetched the keys on the
\* second connection, the only one open.
C13_Witness ==
    /\ nconn = 2
    /\ redis = 2
    /\ openConns = {2}
    /\ cur.type = "RefreshKeys"
    /\ calls # <<>>
    /\ calls[1].conn = 2
    /\ calls[1].done /\ calls[1].ok

\* C14: `redis` starts None; it is not None only if a CreateConnection was
\* taken before; and the only step that changes it is the end of a
\* CreateConnection whose connect_redis and get_all_keys both returned Ok,
\* which stores the connection just opened. No step of a RefreshKeys or a
\* SelectRedisValue changes it.
C14_ConnectedOnlyByConnect ==
    /\ redis = None
    /\ [](redis # None =>
            \E i \in 1..Len(processed) : processed[i].type = "CreateConnection")
    /\ [][redis' # redis
            => /\ cur.type = "CreateConnection"
               /\ cur' = cur
               /\ wpc = "connect_keys"
               /\ Len(calls') = 2
               /\ calls'[1].op = "connect_redis" /\ calls'[1].done /\ calls'[1].ok
               /\ calls'[2].op = "get_all_keys" /\ calls'[2].done /\ calls'[2].ok
               /\ redis' = conn
               /\ redis' # None]_vars

\* A SelectRedisValue ran to its end on the connection of an earlier
\* CreateConnection.
C14_Witness ==
    /\ CommandDone
    /\ cur.type = "SelectRedisValue"
    /\ redis # None
    /\ Len(calls) = 2
    /\ emitted # <<>>

\* C15 as claimed: when the worker has terminated and no Sender is left, no
\* command is left in the channel: every command sent was taken.
C15_TerminatesDrained ==
    (senders = {} /\ ~ReceiverAlive) => (chan = <<>> /\ processed = sent)

\* C16: the UI thread runs each callback in one step, and in every state
\* keys_senders has one entry per key of keys, the i-th carrying the i-th
\* key.
C16_KeysSendersMatchKeys ==
    /\ Len(data.keys_senders) = Len(data.keys)
    /\ \A i \in 1..Len(data.keys) : data.keys_senders[i].value = data.keys[i]

\* Two keys are listed, after the closure of a RefreshKeys handled without
\* a connection (which writes keys alone) had run.
C16_Witness ==
    /\ Len(data.keys) = 2
    /\ Len(data.keys_senders) = 2
    /\ Len(processed) >= 2
    /\ processed[1].type = "RefreshKeys"
    /\ lastApplied.tag = "KeysUpdated"
    /\ lastApplied.cmd >= 2

\* The RefreshKeys commands (in Spec all sent by the Refresh button) that
\* are buffered, being handled, or whose callback has not run yet.
RefreshesBuffered == {i \in 1..Len(chan) : chan[i].type = "RefreshKeys"}
RefreshInHand == cur.type = "RefreshKeys" /\ wpc \in {"dispatch", "refresh_keys"}
RefreshResultsQueued ==
    {i \in 1..Len(callbacks) :
        /\ callbacks[i].cmd \in 1..Len(processed)
        /\ processed[callbacks[i].cmd].type = "RefreshKeys"}
RefreshesOutstanding ==
    Cardinality(RefreshesBuffered) + Cardinality(RefreshResultsQueued)
        + (IF RefreshInHand THEN 1 ELSE 0)

\* C17 as claimed: while the window is open, a RefreshKeys of the Refresh
\* button that is buffered, being handled or not yet applied implies
\* is_refreshing, and at most one is outstanding.
C17_RefreshingGuardsRefresh ==
    app = "running" =>
        /\ RefreshesOutstanding > 0 => data.is_refreshing
        /\ RefreshesOutstanding <= 1

\* The program under fair scheduling: the worker thread keeps running while
\* it has a step to take, and the event loop of the open window keeps running
\* the idle callbacks queued for it.
FairSpec == Spec /\ WF_vars(Worker) /\ WF_vars(RunIdleCallback)

\* C18 as claimed: while the window stays open, is_refreshing = true is
\* always followed by is_refreshing = false.
C18_RefreshingEnds ==
    (app = "running" /\ data.is_refreshing)
        ~> (app # "running" \/ ~data.is_refreshing)

\* C19 as claimed: with the channel empty, the worker idle at the top of its
\* loop and every queued callback applied, the connection form is showing
\* exactly when the worker holds no connection.
C19_FormShowsIffDisconnected ==
    (app = "running" /\ chan = <<>> /\ wpc = "loop" /\ callbacks = <<>>)
        => (FormShowing <=> redis = None)

====
